---- MODULE Spec2Model ----
(***************************************************************************)
(* SCRU128: the Base36 codec of base36_128.c (convert_base, encode,       *)
(* decode, in both builds: USE_NAIVE_CODE and the optimized default) and   *)
(* the identifier generator the README specifies.                          *)
(*                                                                         *)
(* Numbers wider than the model checker's integers (the uint64_t carry of  *)
(* the optimized convert_base, 128-bit identifiers) are kept as digit      *)
(* arrays; every product and sum below stays under 2^31.                   *)
(***************************************************************************)
EXTENDS Integers, Sequences, FiniteSets, TLC

\* ------------------------------------------------------------------------
\* uint64_t: four 16-bit limbs, least significant first; arithmetic is
\* modulo 2^64 as in C (the carry out of the top limb is dropped).
\* ------------------------------------------------------------------------

LimbBase == 65536

U64Zero == <<0, 0, 0, 0>>

UINT64_MAX == <<LimbBase - 1, LimbBase - 1, LimbBase - 1, LimbBase - 1>>

\* (uint64_t)n for an int 0 <= n < 2^31
U64FromInt(n) == <<n % LimbBase, n \div LimbBase, 0, 0>>

U64IsZero(x) == x = U64Zero

\* x * m + a (mod 2^64) for a uint64_t x and ints 0 <= m <= 256, 0 <= a < 2^16
U64MulAdd(x, m, a) ==
  LET t1 == x[1] * m + a
      t2 == x[2] * m + (t1 \div LimbBase)
      t3 == x[3] * m + (t2 \div LimbBase)
      t4 == x[4] * m + (t3 \div LimbBase)
  IN  <<t1 % LimbBase, t2 % LimbBase, t3 % LimbBase, t4 % LimbBase>>

\* The part of x * m + a that does not fit in 64 bits (0: the product and
\* sum did not exceed UINT64_MAX)
U64MulAddCarry(x, m, a) ==
  LET t1 == x[1] * m + a
      t2 == x[2] * m + (t1 \div LimbBase)
      t3 == x[3] * m + (t2 \div LimbBase)
      t4 == x[4] * m + (t3 \div LimbBase)
  IN  t4 \div LimbBase

\* x + y (mod 2^64)
U64Add(x, y) ==
  LET t1 == x[1] + y[1]
      t2 == x[2] + y[2] + (t1 \div LimbBase)
      t3 == x[3] + y[3] + (t2 \div LimbBase)
      t4 == x[4] + y[4] + (t3 \div LimbBase)
  IN  <<t1 % LimbBase, t2 % LimbBase, t3 % LimbBase, t4 % LimbBase>>

\* The part of x + y that does not fit in 64 bits
U64AddCarry(x, y) ==
  LET t1 == x[1] + y[1]
      t2 == x[2] + y[2] + (t1 \div LimbBase)
      t3 == x[3] + y[3] + (t2 \div LimbBase)
      t4 == x[4] + y[4] + (t3 \div LimbBase)
  IN  t4 \div LimbBase

\* <<x / d, x % d>> for a uint64_t x and an int 1 <= d <= 256
U64DivMod(x, d) ==
  LET t4 == x[4]
      t3 == (t4 % d) * LimbBase + x[3]
      t2 == (t3 % d) * LimbBase + x[2]
      t1 == (t2 % d) * LimbBase + x[1]
  IN  <<(<<t1 \div d, t2 \div d, t3 \div d, t4 \div d>>), t1 % d>>

\* Byte k (1 the least significant) of a uint64_t
U64Byte(x, k) ==
  IF k % 2 = 1 THEN x[(k + 1) \div 2] % 256 ELSE x[k \div 2] \div 256

\* Long division by bytes, from byte k down, rem the remainder so far and q
\* the quotient's bytes k + 1 .. 8: the quotient's bytes 1 .. 8
RECURSIVE U64DivWideAt(_, _, _, _, _)
U64DivWideAt(x, d, k, rem, q) ==
  IF k = 0 THEN q
  ELSE LET t == rem * 256 + U64Byte(x, k)
       IN  U64DivWideAt(x, d, k - 1, t % d, <<t \div d>> \o q)

\* x / d for a uint64_t x and an int 1 <= d <= 65536
U64DivWide(x, d) ==
  LET q == U64DivWideAt(x, d, 8, 0, <<>>)
  IN  [k \in 1..4 |-> q[2 * k - 1] + 256 * q[2 * k]]

\* x <= y
U64Leq(x, y) ==
  IF x[4] # y[4] THEN x[4] < y[4]
  ELSE IF x[3] # y[3] THEN x[3] < y[3]
  ELSE IF x[2] # y[2] THEN x[2] < y[2]
  ELSE x[1] <= y[1]

\* ------------------------------------------------------------------------
\* convert_base: a digit array `in` (in_len digits, most significant first,
\* C index i is in[i + 1] here) becomes the pair <<err, out>>.
\* ------------------------------------------------------------------------

\* uint_fast16_t holds at least 16 bits
UINT_FAST16_MOD == 65536

Zeros(n) == [k \in 1..n |-> 0]

\* The naive inner loop, for C index j - 1 down to 0: <<out, carry>>
RECURSIVE NaiveInner(_, _, _, _, _)
NaiveInner(out, j, carry, in_base, out_base) ==
  IF j = 0 THEN <<out, carry>>
  ELSE LET c == (carry + out[j] * in_base) % UINT_FAST16_MOD
       IN  NaiveInner([out EXCEPT ![j] = c % out_base], j - 1, c \div out_base,
                      in_base, out_base)

\* Whether carry += out[j] * in_base exceeds 65535 in the naive inner loop
\* run from the same arguments
RECURSIVE NaiveInnerWrapped(_, _, _, _, _)
NaiveInnerWrapped(out, j, carry, in_base, out_base) ==
  IF j = 0 THEN FALSE
  ELSE IF carry + out[j] * in_base >= UINT_FAST16_MOD THEN TRUE
  ELSE LET c == carry + out[j] * in_base
       IN  NaiveInnerWrapped([out EXCEPT ![j] = c % out_base], j - 1,
                             c \div out_base, in_base, out_base)

\* Mutant of NaiveOuter: the carry left after a digit is not checked
RECURSIVE NaiveOuter_NoCarryCheck(_, _, _, _, _)
NaiveOuter_NoCarryCheck(in, i, in_base, out, out_base) ==
  IF i > Len(in) THEN <<0, out>>
  ELSE NaiveOuter_NoCarryCheck(
         in, i + 1, in_base,
         NaiveInner(out, Len(out), in[i], in_base, out_base)[1], out_base)

\* The naive outer loop from input digit i (1-based) on
RECURSIVE NaiveOuter(_, _, _, _, _)
NaiveOuter(in, i, in_base, out, out_base) ==
  IF i > Len(in) THEN <<0, out>>
  ELSE LET r == NaiveInner(out, Len(out), in[i], in_base, out_base)
       IN  IF r[2] # 0 THEN <<-1, r[1]>>
           ELSE NaiveOuter(in, i + 1, in_base, r[1], out_base)

\* Whether carry exceeds 65535 in the naive outer loop run from the same
\* arguments
RECURSIVE NaiveOuterWrapped(_, _, _, _, _)
NaiveOuterWrapped(in, i, in_base, out, out_base) ==
  IF i > Len(in) THEN FALSE
  ELSE IF NaiveInnerWrapped(out, Len(out), in[i], in_base, out_base) THEN TRUE
  ELSE LET r == NaiveInner(out, Len(out), in[i], in_base, out_base)
       IN  IF r[2] # 0 THEN FALSE
           ELSE NaiveOuterWrapped(in, i + 1, in_base, r[1], out_base)

\* convert_base built with USE_NAIVE_CODE
convert_base_naive(in, in_base, out_len, out_base) ==
  NaiveOuter(in, 1, in_base, Zeros(out_len), out_base)

\* Mutant of WordSize: the limit of word_base leaves out_base out
RECURSIVE WordSize_IgnoresOutBase(_, _, _, _)
WordSize_IgnoresOutBase(word_len, word_base, in_base, out_base) ==
  IF U64Leq(word_base, U64DivWide(UINT64_MAX, in_base))
    THEN WordSize_IgnoresOutBase(word_len + 1, U64MulAdd(word_base, in_base, 0),
                                 in_base, out_base)
    ELSE <<word_len, word_base>>

\* The loop that sizes a word, from (word_len, word_base): <<word_len, word_base>>
RECURSIVE WordSize(_, _, _, _)
WordSize(word_len, word_base, in_base, out_base) ==
  IF U64Leq(word_base, U64DivWide(UINT64_MAX, in_base * out_base))
    THEN WordSize(word_len + 1, U64MulAdd(word_base, in_base, 0), in_base, out_base)
    ELSE <<word_len, word_base>>

\* Whether word_base *= in_base exceeds UINT64_MAX in the loop that sizes a
\* word
RECURSIVE WordSizeWrapped(_, _, _)
WordSizeWrapped(word_base, in_base, out_base) ==
  IF ~U64Leq(word_base, U64DivWide(UINT64_MAX, in_base * out_base)) THEN FALSE
  ELSE IF U64MulAddCarry(word_base, in_base, 0) # 0 THEN TRUE
  ELSE WordSizeWrapped(U64MulAdd(word_base, in_base, 0), in_base, out_base)

\* Mutant of ReadWord: the digits are folded in base 256 whatever in_base is
RECURSIVE ReadWord_Base256(_, _, _, _, _)
ReadWord_Base256(in, j, last, carry, in_base) ==
  IF j >= last THEN carry
  ELSE ReadWord_Base256(in, j + 1, last, U64MulAdd(carry, 256, in[j + 1]),
                        in_base)

\* Reading one word: the digits of C index j .. last - 1 folded into carry
RECURSIVE ReadWord(_, _, _, _, _)
ReadWord(in, j, last, carry, in_base) ==
  IF j >= last THEN carry
  ELSE ReadWord(in, j + 1, last, U64MulAdd(carry, in_base, in[j + 1]), in_base)

\* Whether carry * in_base + in[j] exceeds UINT64_MAX while a word is read
RECURSIVE ReadWordWrapped(_, _, _, _, _)
ReadWordWrapped(in, j, last, carry, in_base) ==
  IF j >= last THEN FALSE
  ELSE IF U64MulAddCarry(carry, in_base, in[j + 1]) # 0 THEN TRUE
  ELSE ReadWordWrapped(in, j + 1, last, U64MulAdd(carry, in_base, in[j + 1]),
                       in_base)

\* Mutant of OptInner: the loop breaks as soon as carry is zero, whether or
\* not the remaining out digits are still zero
RECURSIVE OptInner_BreakOnZeroCarry(_, _, _, _, _, _)
OptInner_BreakOnZeroCarry(out, j, carry, word_base, out_base, out_used) ==
  IF j < 0 THEN <<out, carry, out_used>>
  ELSE LET c  == U64Add(carry, U64MulAdd(word_base, out[j + 1], 0))
           dm == U64DivMod(c, out_base)
       IN  IF U64IsZero(dm[1])
             THEN <<[out EXCEPT ![j + 1] = dm[2]], dm[1], j>>
             ELSE OptInner_BreakOnZeroCarry([out EXCEPT ![j + 1] = dm[2]], j - 1,
                                            dm[1], word_base, out_base, out_used)

\* The optimized inner loop from C index j down: <<out, carry, out_used>>
RECURSIVE OptInner(_, _, _, _, _, _)
OptInner(out, j, carry, word_base, out_base, out_used) ==
  IF j < 0 THEN <<out, carry, out_used>>
  ELSE LET c  == U64Add(carry, U64MulAdd(word_base, out[j + 1], 0))
           dm == U64DivMod(c, out_base)
           o  == [out EXCEPT ![j + 1] = dm[2]]
           c2 == dm[1]
       IN  IF U64IsZero(c2) /\ j <= out_used
             THEN <<o, c2, j>>
             ELSE OptInner(o, j - 1, c2, word_base, out_base, out_used)

\* Whether carry += out[j] * word_base exceeds UINT64_MAX in the optimized
\* inner loop run from the same arguments
RECURSIVE OptInnerWrapped(_, _, _, _, _, _)
OptInnerWrapped(out, j, carry, word_base, out_base, out_used) ==
  IF j < 0 THEN FALSE
  ELSE IF U64MulAddCarry(word_base, out[j + 1], 0) # 0 THEN TRUE
  ELSE IF U64AddCarry(carry, U64MulAdd(word_base, out[j + 1], 0)) # 0 THEN TRUE
  ELSE LET c  == U64Add(carry, U64MulAdd(word_base, out[j + 1], 0))
           dm == U64DivMod(c, out_base)
       IN  IF U64IsZero(dm[1]) /\ j <= out_used THEN FALSE
           ELSE OptInnerWrapped([out EXCEPT ![j + 1] = dm[2]], j - 1, dm[1],
                                word_base, out_base, out_used)

\* The optimized outer loop from the word whose head is C index i
RECURSIVE OptOuter(_, _, _, _, _, _, _, _)
OptOuter(in, i, word_len, word_base, in_base, out, out_base, out_used) ==
  IF i >= Len(in) THEN <<0, out>>
  ELSE LET w == ReadWord(in, IF i < 0 THEN 0 ELSE i, i + word_len, U64Zero, in_base)
           r == OptInner(out, Len(out) - 1, w, word_base, out_base, out_used)
       IN  IF ~U64IsZero(r[2]) THEN <<-1, r[1]>>
           ELSE OptOuter(in, i + word_len, word_len, word_base, in_base,
                         r[1], out_base, r[3])

\* Whether carry exceeds UINT64_MAX in the optimized outer loop run from the
\* same arguments
RECURSIVE OptOuterWrapped(_, _, _, _, _, _, _, _)
OptOuterWrapped(in, i, word_len, word_base, in_base, out, out_base, out_used) ==
  IF i >= Len(in) THEN FALSE
  ELSE IF ReadWordWrapped(in, IF i < 0 THEN 0 ELSE i, i + word_len, U64Zero,
                          in_base) THEN TRUE
  ELSE LET w == ReadWord(in, IF i < 0 THEN 0 ELSE i, i + word_len, U64Zero, in_base)
       IN  IF OptInnerWrapped(out, Len(out) - 1, w, word_base, out_base, out_used)
             THEN TRUE
           ELSE LET r == OptInner(out, Len(out) - 1, w, word_base, out_base,
                                  out_used)
                IN  IF ~U64IsZero(r[2]) THEN FALSE
                    ELSE OptOuterWrapped(in, i + word_len, word_len, word_base,
                                         in_base, r[1], out_base, r[3])

\* convert_base built without USE_NAIVE_CODE
convert_base_opt(in, in_base, out_len, out_base) ==
  LET ws == WordSize(1, U64FromInt(in_base), in_base, out_base)
      i0 == Len(in) % ws[1]
  IN  OptOuter(in, IF i0 > 0 THEN i0 - ws[1] ELSE i0, ws[1], ws[2], in_base,
               Zeros(out_len), out_base, out_len - 1)

\* Whether the carry of the naive convert_base exceeds 65535 at any step
naive_wrapped(in, in_base, out_len, out_base) ==
  NaiveOuterWrapped(in, 1, in_base, Zeros(out_len), out_base)

\* Whether word_base or the carry of the optimized convert_base exceeds
\* UINT64_MAX at any step
opt_wrapped(in, in_base, out_len, out_base) ==
  LET ws == WordSize(1, U64FromInt(in_base), in_base, out_base)
      i0 == Len(in) % ws[1]
  IN  \/ WordSizeWrapped(U64FromInt(in_base), in_base, out_base)
      \/ OptOuterWrapped(in, IF i0 > 0 THEN i0 - ws[1] ELSE i0, ws[1], ws[2],
                         in_base, Zeros(out_len), out_base, out_len - 1)

\* The C indices of `in` the optimized outer loop reads, in the order it
\* reads them, from the word whose head is C index i
RECURSIVE OptOuterReads(_, _, _, _, _, _, _, _)
OptOuterReads(in, i, word_len, word_base, in_base, out, out_base, out_used) ==
  IF i >= Len(in) THEN <<>>
  ELSE LET first == IF i < 0 THEN 0 ELSE i
           word  == [k \in 1..(i + word_len - first) |-> first + k - 1]
           w == ReadWord(in, first, i + word_len, U64Zero, in_base)
           r == OptInner(out, Len(out) - 1, w, word_base, out_base, out_used)
       IN  IF ~U64IsZero(r[2]) THEN word
           ELSE word \o OptOuterReads(in, i + word_len, word_len, word_base,
                                      in_base, r[1], out_base, r[3])

\* The C indices of `in` the optimized convert_base reads, in order
opt_reads(in, in_base, out_len, out_base) ==
  LET ws == WordSize(1, U64FromInt(in_base), in_base, out_base)
      i0 == Len(in) % ws[1]
  IN  OptOuterReads(in, IF i0 > 0 THEN i0 - ws[1] ELSE i0, ws[1], ws[2], in_base,
                    Zeros(out_len), out_base, out_len - 1)

\* convert_base of the build: USE_NAIVE_CODE defined (naive) or not
convert_base(use_naive, in, in_base, out_len, out_base) ==
  IF use_naive THEN convert_base_naive(in, in_base, out_len, out_base)
  ELSE convert_base_opt(in, in_base, out_len, out_base)

\* ------------------------------------------------------------------------
\* encode and decode. A text is the array of its character codes, the
\* terminating NUL included (C index i is text[i + 1]).
\* ------------------------------------------------------------------------

NBytes == 16

NDigits == 25

\* The two translation units: base36_128.c (the naive code only) and the
\* reference implementation (naive with USE_NAIVE_CODE, optimized without)
OldFile == "base36_128.c"

RefFile == "part_000"

\* DIGITS[] as ASCII codes: "0123456789ABCDEFGHIJKLMNOPQRSTUVWXYZ" in
\* base36_128.c, "0123456789abcdefghijklmnopqrstuvwxyz" in the reference
DIGITS(file) ==
  [d \in 0..35 |->
     IF d < 10 THEN 48 + d
     ELSE IF file = OldFile THEN 65 + (d - 10) ELSE 97 + (d - 10)]

\* Mutant of DECODE_MAP: the lowercase letters are missing from the map
DECODE_MAP_UpperOnly ==
  [c \in 0..127 |->
     IF c >= 48 /\ c <= 57 THEN c - 48
     ELSE IF c >= 65 /\ c <= 90 THEN c - 65 + 10
     ELSE 255]

\* DECODE_MAP[128], the same in both files
DECODE_MAP ==
  [c \in 0..127 |->
     IF c >= 48 /\ c <= 57 THEN c - 48
     ELSE IF c >= 65 /\ c <= 90 THEN c - 65 + 10
     ELSE IF c >= 97 /\ c <= 122 THEN c - 97 + 10
     ELSE 255]

\* Mutant of encode: the digits are written least significant first
encode_Reversed(file, naive, b) ==
  LET r == convert_base(naive, b, 256, NDigits, 36)
  IN  <<r[1], [k \in 1..(NDigits + 1) |->
                 IF k <= NDigits THEN DIGITS(file)[r[2][NDigits + 1 - k]] ELSE 0]>>

\* Mutant of encode: digit_values is one digit short
encode_ShortBuffer(file, naive, b) ==
  LET r == convert_base(naive, b, 256, NDigits - 1, 36)
  IN  <<r[1], [k \in 1..(NDigits + 1) |->
                 IF k < NDigits THEN DIGITS(file)[r[2][k]] ELSE 0]>>

\* encode: <<err of convert_base, out>>; the assertion is err = 0
encode(file, naive, b) ==
  LET r == convert_base(naive, b, 256, NDigits, 36)
  IN  <<r[1], [k \in 1..(NDigits + 1) |->
                 IF k <= NDigits THEN DIGITS(file)[r[2][k]] ELSE 0]>>

\* The first loop of decode from C index i: the index of the first invalid
\* digit character, or NDigits when the first NDigits characters are digits
RECURSIVE FirstInvalid(_, _)
FirstInvalid(t, i) ==
  IF i >= NDigits THEN NDigits
  ELSE LET code == t[i + 1]
       IN  IF code > 127 \/ DECODE_MAP[code] = 255
             THEN i
             ELSE FirstInvalid(t, i + 1)

\* Mutant of decode_reads: text[25] is looked at before the digit characters
decode_reads_LengthFirst(t) ==
  LET fi == FirstInvalid(t, 0)
  IN  {NDigits} \cup (IF fi < NDigits THEN 0..fi ELSE 0..NDigits)

\* The C indices of text that decode reads: the digit characters up to the
\* first invalid one, and text[25] when there is none
decode_reads(t) ==
  LET fi == FirstInvalid(t, 0)
  IN  IF fi < NDigits THEN 0..fi ELSE 0..NDigits

\* Mutant of decode: the err of convert_base is not looked at
decode_IgnoreOverflow(naive, t, out) ==
  IF FirstInvalid(t, 0) < NDigits THEN <<-1, out>>
  ELSE IF t[NDigits + 1] # 0 THEN <<-1, out>>
  ELSE <<0, convert_base(naive, [k \in 1..NDigits |-> DECODE_MAP[t[k]]], 36,
                         NBytes, 256)[2]>>

\* Mutant of decode: text[25] is not checked
decode_NoLengthCheck(naive, t, out) ==
  IF FirstInvalid(t, 0) < NDigits THEN <<-1, out>>
  ELSE LET r == convert_base(naive, [k \in 1..NDigits |-> DECODE_MAP[t[k]]],
                             36, NBytes, 256)
       IN  <<IF r[1] # 0 THEN -1 ELSE 0, r[2]>>

\* decode: <<err, out>>; out is written by convert_base only
decode(naive, t, out) ==
  IF FirstInvalid(t, 0) < NDigits THEN <<-1, out>>
  ELSE IF t[NDigits + 1] # 0 THEN <<-1, out>>
  ELSE LET digit_values == [k \in 1..NDigits |-> DECODE_MAP[t[k]]]
           r == convert_base(naive, digit_values, 36, NBytes, 256)
       IN  <<IF r[1] # 0 THEN -1 ELSE 0, r[2]>>

\* ------------------------------------------------------------------------
\* The program's state: the build, the buffers the callers of encode and
\* decode hold, and the last operation.
\* ------------------------------------------------------------------------

VARIABLES
  file,        \* the translation unit built
  use_naive,   \* whether the build runs the naive convert_base
  op,          \* the last operation
  edits,       \* how many times the caller edited the input
  bytes,       \* the 16-byte array given to encode
  text,        \* the text buffer: encode's out, decode's text
  err,         \* the last return code (for encode: convert_base's err)
  out_bytes,   \* decode's out
  ids,         \* a list of 16-byte identifiers to encode in turn
  texts,       \* the texts of the identifiers encoded so far
  cv,          \* the arguments of a convert_base call
  res_naive,   \* what the naive convert_base returned for cv (<<>>: not run)
  res_opt,     \* what the optimized convert_base returned for cv
  policy,      \* what generate does on a large clock rollback
  now,         \* the wall clock's reading, in milliseconds
  ticks,       \* how many times the wall clock has moved
  gen,         \* the generator's state
  gen_err,     \* the outcome of the last generate call
  emitted      \* the identifiers generated so far, oldest first

codecVars == <<edits, bytes, text, err, out_bytes>>

orderVars == <<ids, texts>>

convVars == <<cv, res_naive, res_opt>>

genVars == <<policy, now, ticks, gen, gen_err, emitted>>

vars == <<file, use_naive, op, codecVars, orderVars, convVars, genVars>>

\* The builds: base36_128.c has the naive code only
BuildInit ==
  /\ file \in {OldFile, RefFile}
  /\ use_naive \in BOOLEAN
  /\ file = OldFile => use_naive

AllFF == [k \in 1..NBytes |-> 255]

\* The byte arrays of test_positive_cases
TestBytes ==
  { Zeros(NBytes),
    <<1, 127, 238, 127, 239, 65, 126, 43, 52, 50, 172, 46, 197, 83, 104, 124>>,
    <<1, 127, 238, 127, 239, 66, 126, 43, 52, 108, 15, 244, 20, 187, 207, 253>>,
    <<1, 127, 239, 57, 194, 100, 27, 165, 106, 148, 131, 24, 136, 65, 224, 90>>,
    AllFF }

\* "f5lxx1zz5pnorynqglhzmsp33"
MaxText ==
  <<102, 53, 108, 120, 120, 49, 122, 122, 53, 112, 110, 111, 114, 121, 110,
    113, 103, 108, 104, 122, 109, 115, 112, 51, 51, 0>>

\* The texts of test_positive_cases and test_negative_cases (lowercase, and
\* two of them as base36_128.c writes them)
TestTexts ==
  { [k \in 1..(NDigits + 1) |-> IF k <= NDigits THEN 48 ELSE 0],
    <<48, 51, 55, 50, 104, 103, 49, 54, 99, 115, 109, 115, 109, 53, 48, 108,
      56, 100, 105, 107, 99, 118, 117, 107, 99, 0>>,
    <<48, 51, 55, 50, 105, 106, 111, 106, 117, 120, 117, 104, 106, 115, 102,
      107, 101, 114, 121, 105, 50, 109, 114, 116, 109, 0>>,
    MaxText,
    <<48, 0>>,
    [k \in 1..(NDigits + 2) |-> IF k <= NDigits + 1 THEN 48 ELSE 0],
    [MaxText EXCEPT ![12] = 43],
    [MaxText EXCEPT ![NDigits] = 52],
    [k \in 1..(NDigits + 1) |-> IF k <= NDigits THEN 122 ELSE 0],
    <<70, 53, 76, 88, 88, 49, 90, 90, 53, 80, 78, 79, 82, 89, 78, 81, 71, 76,
      72, 90, 77, 83, 80, 51, 51, 0>> }

\* How many bytes (characters) a caller changes in a test input
MaxEdits == 1

\* The bytes a caller writes (36 makes the low base-36 digit of a word zero),
\* at the first and last index and on both sides of the word boundaries of
\* the optimized convert_base (16 = 2 + 7 + 7)
ByteValues == {0, 1, 36, 255}

BytePositions == {1, 2, 3, 9, 10, 16}

\* The characters a caller writes: '0', '4', 'z', 'Z', '+' and a byte above
\* 127, at the first and last index and on both sides of the word boundaries
\* (25 = 5 + 10 + 10)
CharValues == {48, 52, 122, 90, 43, 200}

CharPositions == {1, 5, 6, 15, 16, 25}

\* The state of the variables a specification does not use
CodecIdle ==
  /\ edits = 0
  /\ bytes = Zeros(NBytes)
  /\ text = <<0>>
  /\ err = 0
  /\ out_bytes = Zeros(NBytes)

OrderIdle ==
  /\ ids = <<>>
  /\ texts = <<>>

GenIdle ==
  /\ policy = "reset"
  /\ now = 0
  /\ ticks = 0
  /\ gen = [timestamp |-> 0, counter_hi |-> 0, counter_lo |-> 0,
            ts_counter_hi |-> 0]
  /\ gen_err = "none"
  /\ emitted = <<>>

ConvIdle ==
  /\ cv = [in |-> <<>>, in_base |-> 2, out_len |-> 0, out_base |-> 2]
  /\ res_naive = <<>>
  /\ res_opt = <<>>

\* test_positive_cases, generalised: a byte array is encoded and the text
\* decoded
Init ==
  /\ BuildInit
  /\ op = "init"
  /\ edits = 0
  /\ bytes \in TestBytes
  /\ text = <<0>>
  /\ err = 0
  /\ out_bytes = Zeros(NBytes)
  /\ OrderIdle
  /\ ConvIdle
  /\ GenIdle

\* The caller writes one byte of the array it will encode
SetByte(i, v) ==
  /\ op \in {"init", "setbyte"}
  /\ edits < MaxEdits
  /\ bytes[i] # v
  /\ bytes' = [bytes EXCEPT ![i] = v]
  /\ edits' = edits + 1
  /\ op' = "setbyte"
  /\ UNCHANGED <<file, use_naive, text, err, out_bytes, orderVars, convVars, genVars>>

\* encode(bytes, text)
Encode ==
  /\ op \in {"init", "setbyte"}
  /\ \E r \in {encode(file, use_naive, bytes)} :
       /\ err' = r[1]
       /\ text' = r[2]
  /\ op' = "encode"
  /\ UNCHANGED <<file, use_naive, edits, bytes, out_bytes, orderVars, convVars, genVars>>

\* The caller writes one character of the text it will decode
SetChar(i, c) ==
  /\ op \in {"text", "settext"}
  /\ edits < MaxEdits
  /\ i < Len(text)
  /\ text[i] # c
  /\ text' = [text EXCEPT ![i] = c]
  /\ edits' = edits + 1
  /\ op' = "settext"
  /\ UNCHANGED <<file, use_naive, bytes, err, out_bytes, orderVars, convVars, genVars>>

\* The caller changes the case of one letter of the text
ToggleCase(i) ==
  /\ op \in {"text", "settext"}
  /\ edits < MaxEdits
  /\ i < Len(text)
  /\ (text[i] >= 65 /\ text[i] <= 90) \/ (text[i] >= 97 /\ text[i] <= 122)
  /\ text' = [text EXCEPT ![i] = IF text[i] <= 90 THEN text[i] + 32
                                                 ELSE text[i] - 32]
  /\ edits' = edits + 1
  /\ op' = "settext"
  /\ UNCHANGED <<file, use_naive, bytes, err, out_bytes, orderVars, convVars, genVars>>

\* The caller drops the last character of the text
Truncate ==
  /\ op \in {"text", "settext"}
  /\ edits < MaxEdits
  /\ Len(text) > 1
  /\ text' = [k \in 1..(Len(text) - 1) |->
                IF k < Len(text) - 1 THEN text[k] ELSE 0]
  /\ edits' = edits + 1
  /\ op' = "settext"
  /\ UNCHANGED <<file, use_naive, bytes, err, out_bytes, orderVars, convVars, genVars>>

\* The caller appends one character to the text
Extend(c) ==
  /\ op \in {"text", "settext"}
  /\ edits < MaxEdits
  /\ text' = [k \in 1..(Len(text) + 1) |->
                IF k < Len(text) THEN text[k]
                ELSE IF k = Len(text) THEN c ELSE 0]
  /\ edits' = edits + 1
  /\ op' = "settext"
  /\ UNCHANGED <<file, use_naive, bytes, err, out_bytes, orderVars, convVars, genVars>>

\* err = decode(text, out_bytes)
Decode ==
  /\ op \in {"encode", "text", "settext"}
  /\ \E r \in {decode(use_naive, text, out_bytes)} :
       /\ err' = r[1]
       /\ out_bytes' = r[2]
  /\ op' = "decode"
  /\ UNCHANGED <<file, use_naive, edits, bytes, text, orderVars, convVars, genVars>>

Next ==
  \/ \E i \in BytePositions, v \in ByteValues : SetByte(i, v)
  \/ Encode
  \/ Decode

Spec == Init /\ [][Next]_vars

\* test_negative_cases, generalised: a text is decoded
InitDecode ==
  /\ BuildInit
  /\ op = "text"
  /\ edits = 0
  /\ bytes = Zeros(NBytes)
  /\ text \in TestTexts
  /\ err = 0
  /\ out_bytes = Zeros(NBytes)
  /\ OrderIdle
  /\ ConvIdle
  /\ GenIdle

NextDecode ==
  \/ \E i \in CharPositions, c \in CharValues : SetChar(i, c)
  \/ \E i \in CharPositions : ToggleCase(i)
  \/ Truncate
  \/ \E c \in CharValues : Extend(c)
  \/ Decode

SpecDecode == InitDecode /\ [][NextDecode]_vars

\* ------------------------------------------------------------------------
\* Identifiers encoded in turn, as a caller that sorts them by text does
\* ------------------------------------------------------------------------

\* bytes + 1 as a big-endian integer (modulo 2^128), from index k leftwards
RECURSIVE AddOneAt(_, _)
AddOneAt(b, k) ==
  IF k = 0 THEN b
  ELSE IF b[k] = 255 THEN AddOneAt([b EXCEPT ![k] = 0], k - 1)
  ELSE [b EXCEPT ![k] = b[k] + 1]

RECURSIVE AddSmall(_, _)
AddSmall(b, d) == IF d = 0 THEN b ELSE AddSmall(AddOneAt(b, NBytes), d - 1)

\* How far apart the closest identifiers of a pair are
MaxDelta == 2

\* 2^64 - 1 and 36^13 - 1: their successors carry across bytes and digits
OrderBytes ==
  TestBytes \cup
  { [k \in 1..NBytes |-> IF k <= 8 THEN 0 ELSE 255],
    <<0, 0, 0, 0, 0, 0, 0, 9, 63, 76, 9, 255, 163, 255, 255, 255>> }

OrderPairs ==
  LET near == {<<a, AddSmall(a, d)>> : a \in OrderBytes, d \in 1..MaxDelta}
      far  == OrderBytes \X OrderBytes
  IN  near \cup far \cup {<<p[2], p[1]>> : p \in near}

InitOrder ==
  /\ BuildInit
  /\ op = "init"
  /\ ids \in OrderPairs
  /\ texts = <<>>
  /\ CodecIdle
  /\ ConvIdle
  /\ GenIdle

\* encode(ids[n], out) for the next identifier of the list
EncodeNext ==
  /\ Len(texts) < Len(ids)
  /\ texts' = Append(texts, encode(file, use_naive, ids[Len(texts) + 1])[2])
  /\ op' = "encode"
  /\ UNCHANGED <<file, use_naive, codecVars, ids, convVars, genVars>>

NextOrder == EncodeNext

SpecOrder == InitOrder /\ [][NextOrder]_vars

\* ------------------------------------------------------------------------
\* convert_base called directly, the naive and the optimized code side by
\* side on the same arguments
\* ------------------------------------------------------------------------

MaxInLen == 3

MaxOutLen == 3

ConvBases == {2, 10, 36, 256}

\* Digit arrays of length n over the digits 0, 1 and base - 1
DigitArrays(n, base) == [1..n -> {0, 1, base - 1}]

\* The digit values of a text of NDigits digit characters
DigitValues(t) == [k \in 1..NDigits |-> DECODE_MAP[t[k]]]

\* The calls encode and decode make, with the output one digit short too
CodecCalls ==
  {[in |-> b, in_base |-> 256, out_len |-> n, out_base |-> 36] :
     b \in TestBytes, n \in {NDigits - 1, NDigits}}
  \cup
  {[in |-> DigitValues(t), in_base |-> 36, out_len |-> n, out_base |-> 256] :
     t \in {u \in TestTexts : Len(u) = NDigits + 1 /\ FirstInvalid(u, 0) = NDigits},
     n \in {NBytes - 1, NBytes}}

\* Inputs longer than a word of the optimized code (7 digits for base 256
\* to base 256 or 36): one digit followed by zeros
WordCalls ==
  {[in |-> [k \in 1..n |-> IF k = q THEN v ELSE 0], in_base |-> 256,
    out_len |-> n + x, out_base |-> ob] :
     n \in {8, NBytes}, q \in 1..NBytes, v \in {1, 36, 255}, x \in {0, 1},
     ob \in {36, 256}}

\* Inputs of the largest digits: of the sizes of the codec in five bases,
\* and longer ones, several words of the optimized code, in the large bases
FullBases == {2, 3, 36, 255, 256}

MaxFullLen == 40

FullCalls ==
  {[in |-> [k \in 1..n |-> ib - 1], in_base |-> ib, out_len |-> n,
    out_base |-> ob] :
     n \in {NBytes, NDigits}, ib \in FullBases, ob \in FullBases}
  \cup
  {[in |-> [k \in 1..MaxFullLen |-> ib - 1], in_base |-> ib,
    out_len |-> MaxFullLen, out_base |-> ob] :
     ib \in {36, 255, 256}, ob \in FullBases}

SmallCalls ==
  UNION {
    {[in |-> d, in_base |-> ib, out_len |-> ol, out_base |-> ob] :
       d \in DigitArrays(il, ib)} :
    il \in 0..MaxInLen, ib \in ConvBases, ol \in 0..MaxOutLen, ob \in ConvBases }

InitConvert ==
  /\ file = RefFile
  /\ use_naive = FALSE
  /\ op = "init"
  /\ cv \in CodecCalls \cup WordCalls \cup FullCalls \cup SmallCalls
  /\ res_naive = <<>>
  /\ res_opt = <<>>
  /\ CodecIdle
  /\ OrderIdle
  /\ GenIdle

\* convert_base(in, in_len, in_base, out, out_len, out_base), USE_NAIVE_CODE
ConvertNaive ==
  /\ res_naive = <<>>
  /\ res_naive' = convert_base_naive(cv.in, cv.in_base, cv.out_len, cv.out_base)
  /\ op' = "convert"
  /\ UNCHANGED <<file, use_naive, codecVars, orderVars, cv, res_opt, genVars>>

\* the same call in the build without USE_NAIVE_CODE
ConvertOpt ==
  /\ res_opt = <<>>
  /\ res_opt' = convert_base_opt(cv.in, cv.in_base, cv.out_len, cv.out_base)
  /\ op' = "convert"
  /\ UNCHANGED <<file, use_naive, codecVars, orderVars, cv, res_naive, genVars>>

NextConvert == ConvertNaive \/ ConvertOpt

SpecConvert == InitConvert /\ [][NextConvert]_vars

\* A text decoded, or the optimized convert_base called directly on an input
\* of one or of several words
InitReads ==
  \/ InitDecode
  \/ /\ file = RefFile
     /\ use_naive = FALSE
     /\ op = "init"
     /\ cv \in CodecCalls \cup WordCalls \cup FullCalls
     /\ res_naive = <<>>
     /\ res_opt = <<>>
     /\ CodecIdle
     /\ OrderIdle
     /\ GenIdle

\* A call of convert_base is made on the arguments of InitReads only
NextReads == NextDecode \/ (op = "init" /\ ConvertOpt)

SpecReads == InitReads /\ [][NextReads]_vars

\* ------------------------------------------------------------------------
\* The generator of the README's specification: one generator, called
\* sequentially, reading a wall clock.
\* ------------------------------------------------------------------------

\* The largest value of the 24-bit counter_hi and counter_lo
MAX_COUNTER == 16777215

\* counter_hi is renewed when timestamp has moved forward by one second
SecondMs == 1000

\* A rollback of "a few seconds" is small
RollbackAllowance == 3000

\* Random 24-bit numbers: the two ends of the range and the value one call
\* short of the maximum
Random24 == {0, MAX_COUNTER - 1, MAX_COUNTER}

\* Random 32-bit numbers, as four bytes
Random32 == {<<0, 0, 0, 0>>, <<255, 255, 255, 255>>}

\* How many identifiers a run generates, and how often the clock moves
MaxCalls == 3

MaxTicks == 1

\* The clock's steps: it stays, moves by a millisecond or by a second
ClockSteps == {1, SecondMs}

\* n as len bytes, most significant first
RECURSIVE IntBytes(_, _)
IntBytes(n, len) ==
  IF len = 0 THEN <<>> ELSE IntBytes(n \div 256, len - 1) \o <<n % 256>>

\* timestamp * 2^80 + counter_hi * 2^56 + counter_lo * 2^32 + entropy, as the
\* 16 bytes of the 128-bit integer, most significant first
Pack(st, entropy) ==
  IntBytes(st.timestamp, 6) \o IntBytes(st.counter_hi, 3)
    \o IntBytes(st.counter_lo, 3) \o entropy

\* timestamp moves forward to t: counter_lo is reset to a random number, and
\* counter_hi too when a second or more has passed since its last renewal
Advance(st, t, r_hi, r_lo) ==
  IF t - st.ts_counter_hi >= SecondMs
    THEN [timestamp |-> t, counter_hi |-> r_hi, counter_lo |-> r_lo,
          ts_counter_hi |-> t]
    ELSE [st EXCEPT !.timestamp = t, !.counter_lo = r_lo]

\* Mutant of Increment: counter_lo wraps to zero without a carry
Increment_NoCarry(st, r_lo) ==
  IF st.counter_lo < MAX_COUNTER
    THEN [st EXCEPT !.counter_lo = st.counter_lo + 1]
    ELSE [st EXCEPT !.counter_lo = 0]

\* Mutant of Increment: on counter overflow both counters wrap to zero and
\* timestamp stays
Increment_OverflowWraps(st, r_lo) ==
  IF st.counter_lo < MAX_COUNTER
    THEN [st EXCEPT !.counter_lo = st.counter_lo + 1]
  ELSE IF st.counter_hi < MAX_COUNTER
    THEN [st EXCEPT !.counter_lo = 0, !.counter_hi = st.counter_hi + 1]
  ELSE [st EXCEPT !.counter_hi = 0, !.counter_lo = 0]

\* A new identifier within the same timestamp: counter_lo is incremented;
\* at its maximum counter_hi is incremented and counter_lo reset to zero;
\* on counter overflow timestamp is incremented, counter_hi reset to zero
\* and counter_lo to a random number
Increment(st, r_lo) ==
  IF st.counter_lo < MAX_COUNTER
    THEN [st EXCEPT !.counter_lo = st.counter_lo + 1]
  ELSE IF st.counter_hi < MAX_COUNTER
    THEN [st EXCEPT !.counter_lo = 0, !.counter_hi = st.counter_hi + 1]
  ELSE [st EXCEPT !.timestamp = st.timestamp + 1, !.counter_hi = 0,
                  !.counter_lo = r_lo]

\* Mutant of generate: timestamp follows the clock whenever the reading
\* differs from it, forward or back
generate_FollowsClock(st, t, pol, r_hi, r_lo) ==
  IF t # st.timestamp
    THEN <<"ok", [timestamp |-> t, counter_hi |-> r_hi, counter_lo |-> r_lo,
                  ts_counter_hi |-> t]>>
    ELSE <<"ok", Increment(st, r_lo)>>

\* One generate call at clock reading t: <<outcome, state>>
generate(st, t, pol, r_hi, r_lo) ==
  IF t > st.timestamp THEN <<"ok", Advance(st, t, r_hi, r_lo)>>
  ELSE IF st.timestamp - t <= RollbackAllowance
    THEN <<"ok", Increment(st, r_lo)>>
  ELSE IF pol = "reset"
    THEN <<"ok", [timestamp |-> t, counter_hi |-> r_hi, counter_lo |-> r_lo,
                  ts_counter_hi |-> t]>>
  ELSE <<"ClockRollback", st>>

\* A generator is created with random counters
InitGen ==
  /\ file = RefFile
  /\ use_naive = FALSE
  /\ op = "init"
  /\ policy \in {"reset", "error"}
  /\ now = 1
  /\ ticks = 0
  /\ \E r_hi \in Random24, r_lo \in Random24 :
       gen = [timestamp |-> 0, counter_hi |-> r_hi, counter_lo |-> r_lo,
              ts_counter_hi |-> 0]
  /\ gen_err = "none"
  /\ emitted = <<>>
  /\ CodecIdle
  /\ OrderIdle
  /\ ConvIdle

\* The wall clock moves forward
Tick(d) ==
  /\ ticks < MaxTicks
  /\ now' = now + d
  /\ ticks' = ticks + 1
  /\ op' = "tick"
  /\ UNCHANGED <<file, use_naive, codecVars, orderVars, convVars, policy, gen,
                 gen_err, emitted>>

\* generate()
Generate ==
  /\ Len(emitted) < MaxCalls
  /\ \E r_hi \in Random24, r_lo \in Random24, entropy \in Random32 :
       \E r \in {generate(gen, now, policy, r_hi, r_lo)} :
         /\ gen_err' = r[1]
         /\ gen' = r[2]
         /\ emitted' = IF r[1] = "ok" THEN Append(emitted, Pack(r[2], entropy))
                       ELSE emitted
  /\ op' = "generate"
  /\ UNCHANGED <<file, use_naive, codecVars, orderVars, convVars, policy, now,
                 ticks>>

NextGenForward ==
  \/ \E d \in ClockSteps : Tick(d)
  \/ Generate

\* A clock that only moves forward or stays
SpecGenForward == InitGen /\ [][NextGenForward]_vars

\* The clock's steps back: within the allowance, and just beyond it
RollbackSteps == {1, RollbackAllowance, RollbackAllowance + 1}

\* A generator created when the clock has run for longer than the allowance
InitGenLate ==
  /\ file = RefFile
  /\ use_naive = FALSE
  /\ op = "init"
  /\ policy \in {"reset", "error"}
  /\ now = RollbackAllowance + 2
  /\ ticks = 0
  /\ \E r_hi \in Random24, r_lo \in Random24 :
       gen = [timestamp |-> 0, counter_hi |-> r_hi, counter_lo |-> r_lo,
              ts_counter_hi |-> 0]
  /\ gen_err = "none"
  /\ emitted = <<>>
  /\ CodecIdle
  /\ OrderIdle
  /\ ConvIdle

\* The wall clock moves back
Rollback(d) ==
  /\ ticks < MaxTicks
  /\ now - d >= 0
  /\ now' = now - d
  /\ ticks' = ticks + 1
  /\ op' = "rollback"
  /\ UNCHANGED <<file, use_naive, codecVars, orderVars, convVars, policy, gen,
                 gen_err, emitted>>

NextGen ==
  \/ Tick(1)
  \/ \E d \in RollbackSteps : Rollback(d)
  \/ Generate

\* A clock that moves forward, stays or moves back
SpecGen == InitGenLate /\ [][NextGen]_vars

\* ------------------------------------------------------------------------
\* What the claims are stated with: the value of a numeral as a natural
\* number (limbs in base 32768, least significant first, no leading zero
\* limb), characters, orders.
\* ------------------------------------------------------------------------

\* x * m + c from limb k on, for ints 1 <= m <= 256 and c >= 0
RECURSIVE NatMulAddAt(_, _, _, _)
NatMulAddAt(x, m, c, k) ==
  IF k > Len(x)
    THEN IF c = 0 THEN <<>>
         ELSE <<c % 32768>> \o NatMulAddAt(x, m, c \div 32768, k)
    ELSE LET t == x[k] * m + c
         IN  <<t % 32768>> \o NatMulAddAt(x, m, t \div 32768, k + 1)

\* The value of the first n digits of a numeral, most significant digit first
RECURSIVE NatValueAt(_, _, _)
NatValueAt(digits, base, n) ==
  IF n = 0 THEN <<>>
  ELSE NatMulAddAt(NatValueAt(digits, base, n - 1), base, digits[n], 1)

NatValue(digits, base) == NatValueAt(digits, base, Len(digits))

\* base ^ n
RECURSIVE NatPow(_, _)
NatPow(base, n) ==
  IF n = 0 THEN <<1>> ELSE NatMulAddAt(NatPow(base, n - 1), base, 0, 1)

\* x < y
NatLess(x, y) ==
  \/ Len(x) < Len(y)
  \/ /\ Len(x) = Len(y)
     /\ \E k \in 1..Len(x) :
          /\ x[k] < y[k]
          /\ \A j \in (k + 1)..Len(x) : x[j] = y[j]

\* a < b for arrays of the same length read most significant element first:
\* big-endian integers, or strings compared as strcmp does
ArrayLess(a, b) ==
  \E k \in 1..Len(a) :
    /\ a[k] < b[k]
    /\ \A j \in 1..(k - 1) : a[j] = b[j]

IsDigitChar(c) == c >= 48 /\ c <= 57

IsUpperChar(c) == c >= 65 /\ c <= 90

IsLowerChar(c) == c >= 97 /\ c <= 122

IsBase36Char(c) == IsDigitChar(c) \/ IsUpperChar(c) \/ IsLowerChar(c)

\* The characters of a text before its terminating NUL
StrLen(t) == Len(t) - 1

\* A text of exactly NDigits characters, all of them base-36 digits
IsValid25(t) ==
  /\ StrLen(t) = NDigits
  /\ \A k \in 1..NDigits : IsBase36Char(t[k])

ToLower(t) == [k \in 1..Len(t) |-> IF IsUpperChar(t[k]) THEN t[k] + 32 ELSE t[k]]

\* The digit a base-36 character stands for
CharDigit(c) ==
  IF IsDigitChar(c) THEN c - 48
  ELSE IF IsUpperChar(c) THEN c - 55
  ELSE c - 87

TextDigits(t) == [k \in 1..NDigits |-> CharDigit(t[k])]

\* ------------------------------------------------------------------------
\* The claims
\* ------------------------------------------------------------------------

\* C1: for every 16-byte array b, decoding the text encode produced for b
\* returns success and yields 16 bytes equal to b.
RoundTrip ==
  op = "decode" => err = 0 /\ Len(out_bytes) = NBytes /\ out_bytes = bytes

\* C1 witness: the round trip of an edited test vector in the optimized build
RoundTripWitness ==
  /\ op = "decode"
  /\ ~use_naive
  /\ edits = 1
  /\ bytes[1] = 1
  /\ bytes[NBytes] = 0
  /\ err = 0
  /\ out_bytes = bytes

\* C2: for a text of exactly 25 base-36 digits, decode succeeds exactly when
\* the numeral is at most f5lxx1zz5pnorynqglhzmsp33 (2^128 - 1), and that
\* text decodes to sixteen 0xFF bytes.
RangeBoundary ==
  (op = "decode" /\ IsValid25(text)) =>
    /\ err = 0 <=> ~ArrayLess(TextDigits(MaxText), TextDigits(text))
    /\ err # 0 => err = -1
    /\ text = MaxText => out_bytes = AllFF

\* C2 witness: a numeral just above the maximum was refused
RangeBoundaryWitness ==
  /\ op = "decode"
  /\ text = [MaxText EXCEPT ![NDigits] = 52]
  /\ err = -1

\* C3: encode writes exactly 25 characters of 0-9a-z and a NUL at index 25.
CanonicalOutput ==
  op = "encode" =>
    /\ Len(text) = NDigits + 1
    /\ \A k \in 1..NDigits : IsDigitChar(text[k]) \/ IsLowerChar(text[k])
    /\ text[NDigits + 1] = 0

\* C4: changing the case of letters of a valid 25-character text changes
\* neither whether decode succeeds nor the bytes it produces.
CaseInsensitive ==
  (op = "decode" /\ IsValid25(text)) =>
    \E r \in {decode(use_naive, ToLower(text), Zeros(NBytes))} :
      /\ err = r[1]
      /\ err = 0 => out_bytes = r[2]

\* C4 witness: a text with letters of both cases was decoded
CaseInsensitiveWitness ==
  /\ op = "decode"
  /\ IsValid25(text)
  /\ \E k \in 1..NDigits : IsUpperChar(text[k])
  /\ \E k \in 1..NDigits : IsLowerChar(text[k])
  /\ err = 0

\* C5: decode fails for every text that is not exactly 25 characters long
\* and for every text with a character outside 0-9, A-Z, a-z.
SyntacticRejection ==
  (/\ op = "decode"
   /\ \/ StrLen(text) # NDigits
      \/ \E k \in 1..StrLen(text) : ~IsBase36Char(text[k]))
  => err # 0

\* C5 witness: a text of 26 digits was refused
SyntacticRejectionWitness ==
  /\ op = "decode"
  /\ StrLen(text) = NDigits + 1
  /\ \A k \in 1..StrLen(text) : IsBase36Char(text[k])
  /\ err # 0

\* What C6 says of one result of convert_base
ValuePreserved(r) ==
  LET v    == NatValue(cv.in, cv.in_base)
      fits == NatLess(v, NatPow(cv.out_base, cv.out_len))
  IN  /\ r[1] = 0 <=> fits
      /\ r[1] # 0 => r[1] = -1
      /\ r[1] = 0 =>
           /\ Len(r[2]) = cv.out_len
           /\ \A k \in 1..cv.out_len : r[2][k] >= 0 /\ r[2][k] < cv.out_base
           /\ NatValue(r[2], cv.out_base) = v

\* C6: convert_base succeeds exactly when the input's value is below
\* out_base^out_len, and then out is the zero-padded out_base numeral of the
\* same value; otherwise it returns -1.
ConvertValue ==
  /\ res_naive # <<>> => ValuePreserved(res_naive)
  /\ res_opt # <<>> => ValuePreserved(res_opt)

\* C6 witness: both builds converted the 16 0xFF bytes to 25 base-36 digits
ConvertValueWitness ==
  /\ res_naive # <<>>
  /\ res_opt # <<>>
  /\ cv.in = AllFF
  /\ cv.out_len = NDigits
  /\ res_opt[1] = 0

\* C7 as claimed: the optimized code returns the same code and leaves the
\* same out array as the naive code.
OptEqualsNaive ==
  (res_naive # <<>> /\ res_opt # <<>>) => res_naive = res_opt

\* C7 as amended: the same return code, and on success the same out array.
OptEqualsNaiveOnSuccess ==
  (res_naive # <<>> /\ res_opt # <<>>) =>
    /\ res_naive[1] = res_opt[1]
    /\ res_naive[1] = 0 => res_naive[2] = res_opt[2]

\* C7 witness: both builds converted a 25-digit input, three words long
OptEqualsNaiveWitness ==
  /\ res_naive # <<>>
  /\ res_opt # <<>>
  /\ Len(cv.in) = NDigits
  /\ cv.out_len = NBytes
  /\ res_naive[1] = 0
  /\ res_naive[2][1] # 0

\* C8: a < b as big-endian 128-bit integers exactly when encode(a) sorts
\* before encode(b) as text.
TextOrder ==
  Len(texts) = 2 =>
    (ArrayLess(ids[1], ids[2]) <=> ArrayLess(texts[1], texts[2]))

\* C8 witness: 2^64 - 1 and its successor were encoded
TextOrderWitness ==
  /\ Len(texts) = 2
  /\ ids[1] = [k \in 1..NBytes |-> IF k <= 8 THEN 0 ELSE 255]
  /\ ids[2] = AddSmall(ids[1], 1)
  /\ ArrayLess(texts[1], texts[2])

\* C9: the convert_base call inside encode returns 0.
EncodeNeverFails == op = "encode" => err = 0

\* C9 witness: the largest value, sixteen 0xFF bytes, was encoded
EncodeNeverFailsWitness ==
  /\ op = "encode"
  /\ bytes = AllFF
  /\ err = 0

\* C10: under a clock that only moves forward or stays, the identifiers one
\* generator yields are strictly increasing as 128-bit integers.
MonotonicOrder ==
  \A i \in 1..Len(emitted), j \in 1..Len(emitted) :
    i < j => ArrayLess(emitted[i], emitted[j])

\* C10 witness: with the clock standing still, an identifier at both counter
\* maxima, the one generated on the counter overflow, and one more
MonotonicOrderWitness ==
  /\ Len(emitted) = 3
  /\ ticks = 0
  /\ gen.timestamp = now + 1
  /\ gen.counter_hi = 0
  /\ \A k \in 7..12 : emitted[1][k] = 255
  /\ ArrayLess(emitted[1], emitted[2])
  /\ ArrayLess(emitted[2], emitted[3])

\* Both counters are at their 24-bit maxima
AtMaxima(st) == st.counter_lo = MAX_COUNTER /\ st.counter_hi = MAX_COUNTER

\* C11 as claimed: a generate call that follows another at the same clock
\* reading, with both counters at their maxima, sets timestamp to one beyond
\* the clock's reading, counter_hi to 0 and counter_lo to a random number, and
\* returns an identifier without an error.
CounterOverflow ==
  [][(/\ op = "generate" /\ gen_err = "ok"
      /\ op' = "generate"
      /\ AtMaxima(gen))
     => /\ gen_err' = "ok"
        /\ gen'.timestamp = now + 1
        /\ gen'.counter_hi = 0
        /\ gen'.counter_lo \in Random24
        /\ Len(emitted') = Len(emitted) + 1]_vars

\* C11 as amended: with both counters at their maxima and the clock reading
\* not ahead of timestamp (and behind it by no more than the allowance), a
\* generate call increments timestamp by exactly one, which is one beyond
\* the clock's reading when timestamp equalled that reading, sets counter_hi
\* to 0 and counter_lo to a random number, and returns the identifier of the
\* new state without an error.
CounterOverflowFromTimestamp ==
  [][(/\ op' = "generate"
      /\ AtMaxima(gen)
      /\ now <= gen.timestamp
      /\ gen.timestamp - now <= RollbackAllowance)
     => /\ gen_err' = "ok"
        /\ gen'.timestamp = gen.timestamp + 1
        /\ gen.timestamp = now => gen'.timestamp = now + 1
        /\ gen'.counter_hi = 0
        /\ gen'.counter_lo \in Random24
        /\ Len(emitted') = Len(emitted) + 1
        /\ \E entropy \in Random32 :
             emitted'[Len(emitted')] = Pack(gen', entropy)]_vars

\* C11 witness: the third identifier came from a counter overflow at a clock
\* reading one behind timestamp
CounterOverflowWitness ==
  /\ op = "generate"
  /\ gen_err = "ok"
  /\ Len(emitted) = 3
  /\ \A k \in 7..12 : emitted[2][k] = 255
  /\ gen.counter_hi = 0
  /\ gen.timestamp = now + 2
  /\ emitted[3] = Pack(gen, <<0, 0, 0, 0>>)

\* The counters of b are those of a incremented by one, within the same
\* timestamp or, from both maxima, into the next one
CountersIncremented(a, b) ==
  \/ /\ b.timestamp = a.timestamp
     /\ b.counter_hi = a.counter_hi
     /\ b.counter_lo = a.counter_lo + 1
     /\ b.counter_lo <= MAX_COUNTER
  \/ /\ b.timestamp = a.timestamp
     /\ a.counter_lo = MAX_COUNTER
     /\ b.counter_lo = 0
     /\ b.counter_hi = a.counter_hi + 1
     /\ b.counter_hi <= MAX_COUNTER
  \/ /\ AtMaxima(a)
     /\ b.timestamp = a.timestamp + 1
     /\ b.counter_hi = 0
     /\ b.counter_lo \in Random24

\* What C12 says of one generate call at a clock reading behind timestamp
RollbackHandled ==
  IF gen.timestamp - now <= RollbackAllowance
    THEN /\ gen_err' = "ok"
         /\ CountersIncremented(gen, gen')
         /\ Len(emitted') = Len(emitted) + 1
         /\ \E entropy \in Random32 :
              emitted'[Len(emitted')] = Pack(gen', entropy)
         /\ emitted # <<>> =>
              ArrayLess(emitted[Len(emitted)], emitted'[Len(emitted')])
  ELSE IF policy = "reset"
    THEN /\ gen_err' = "ok"
         /\ gen'.timestamp = now
         /\ gen'.counter_hi \in Random24
         /\ gen'.counter_lo \in Random24
         /\ Len(emitted') = Len(emitted) + 1
         /\ \E entropy \in Random32 :
              emitted'[Len(emitted')] = Pack(gen', entropy)
  ELSE /\ policy = "error"
       /\ gen_err' = "ClockRollback"
       /\ gen' = gen
       /\ emitted' = emitted

NoWraparound ==
  /\ res_naive # <<>> =>
       ~naive_wrapped(cv.in, cv.in_base, cv.out_len, cv.out_base)
  /\ res_opt # <<>> =>
       /\ ~opt_wrapped(cv.in, cv.in_base, cv.out_len, cv.out_base)
       /\ U64MulAddCarry(WordSize(1, U64FromInt(cv.in_base), cv.in_base,
                                  cv.out_base)[2], cv.out_base, 0) = 0

\* C14 witness: both builds converted 40 digits 255 of base 256 to base 256,
\* where the naive carry reaches 65535
NoWraparoundWitness ==
  /\ res_naive # <<>>
  /\ res_opt # <<>>
  /\ cv.in_base = 256
  /\ cv.out_base = 256
  /\ Len(cv.in) = MaxFullLen
  /\ \A k \in 1..MaxFullLen : cv.in[k] = 255
  /\ res_naive[1] = 0
  /\ res_opt[1] = 0

\* What C15 says of decode: no character is read beyond the first NUL of the
\* text nor beyond index 25, and a text shorter than 25 characters is refused
DecodeReadsBounded ==
  op = "decode" =>
    /\ \A i \in decode_reads(text) : i <= StrLen(text) /\ i <= NDigits
    /\ StrLen(text) < NDigits => err # 0

\* C15 as claimed: decode reads no character beyond the first NUL nor beyond
\* index 25, and the optimized convert_base reads every digit of in, at C
\* indices 0 .. in_len - 1, exactly once.
BoundedReadsEachOnce ==
  /\ DecodeReadsBounded
  /\ res_opt # <<>> =>
       \E reads \in {opt_reads(cv.in, cv.in_base, cv.out_len, cv.out_base)} :
         /\ Len(reads) = Len(cv.in)
         /\ \A k \in 1..Len(reads) : reads[k] = k - 1

\* C15 as amended: decode reads no character beyond the first NUL nor beyond
\* index 25, and the optimized convert_base reads digits of in at C indices
\* 0 .. in_len - 1 only, in ascending order and none twice: all of them when
\* it returns 0, those up to the end of the word that overflowed when it
\* returns -1.
BoundedReads ==
  /\ DecodeReadsBounded
  /\ res_opt # <<>> =>
       \E reads \in {opt_reads(cv.in, cv.in_base, cv.out_len, cv.out_base)} :
         /\ Len(reads) <= Len(cv.in)
         /\ \A k \in 1..Len(reads) : reads[k] = k - 1
         /\ res_opt[1] = 0 => Len(reads) = Len(cv.in)
         /\ Len(reads) < Len(cv.in) => res_opt[1] = -1

\* C15 witness: the optimized convert_base read the 25 digits of a text, the
\* first word five digits long
BoundedReadsWitness ==
  /\ res_opt # <<>>
  /\ cv.in_base = 36
  /\ cv.out_base = 256
  /\ cv.out_len = NBytes
  /\ Len(cv.in) = NDigits
  /\ res_opt[1] = 0
  /\ Len(opt_reads(cv.in, cv.in_base, cv.out_len, cv.out_base)) = NDigits

\* C16: when decode succeeds on a 25-character text, encode of the bytes it
\* wrote is that text with its letters in lowercase.
CanonicalInverse ==
  (op = "decode" /\ err = 0 /\ StrLen(text) = NDigits) =>
    encode(file, use_naive, out_bytes) = <<0, ToLower(text)>>
====
